---- MODULE Spec2Model ----
(***************************************************************************)
(* stay_ledger (src/app.py): the Telegram long-polling engine, the bot     *)
(* command parser, the guarded engine start, and the web handlers that     *)
(* share the SQLite store (app_config, transactions) with the engine.      *)
(*                                                                         *)
(* TLA+ strings are ASCII, so the Chinese literals of the source are       *)
(* written in pinyin: canyin = the category at app.py:18, zhichu / shouru  *)
(* = the type words at app.py:462-463, and so on; the reply texts are      *)
(* named by what they say.                                                 *)
(***************************************************************************)
EXTENDS Integers, Sequences, FiniteSets, TLC

\* ------------------------------------------------------------ bounds
MaxUpdates == 2      \* updates the remote API ever creates
MaxThreads == 2      \* Thread objects ever created (one per engine start)
NumCallers == 2      \* threads that call start_telegram_poller concurrently
MaxRows == 1         \* rows the web form ever adds to the transactions table
MaxRest == 4         \* tokens after the first token of a text given to the parser
NumClients == 2      \* browsers that send requests to the web handlers

\* ------------------------------------------------- program constants
DEFAULT_TELEGRAM_POLL_INTERVAL == 5
IdleBackoff == 3
MinPollInterval == 2

ALLOWED_CATEGORIES ==
  {"canyin", "jiaotong", "gouwu", "zhufang", "shuidianranqi", "tongxun", "yiliao",
   "jiaoyu", "yule", "lvxing", "gongzi", "jiangjin", "licaishouyi", "qita"}

None == "<None>"           \* Python None; also "no row" of app_config
Today == "2024-05-01"      \* date.today().isoformat()

\* ------------------------------------------------ str / int / float
DigitStr == <<"0", "1", "2", "3", "4", "5", "6", "7", "8", "9">>

RECURSIVE NatStr(_)
NatStr(n) == IF n < 10 THEN DigitStr[n + 1] ELSE NatStr(n \div 10) \o DigitStr[(n % 10) + 1]

\* str(n) of a Python int
Str(n) == IF n < 0 THEN "-" \o NatStr(-n) ELSE NatStr(n)

IntRange == (0 - 20) .. 20

\* The decimal literals int() accepts for n, beyond str(n): a sign, leading zeros,
\* surrounding blanks.
IntLiterals(n) ==
  {Str(n), " " \o Str(n) \o " "} \cup (IF n >= 0 THEN {"+" \o Str(n), "0" \o Str(n)} ELSE {})

\* int(s): [ok |-> TRUE, v |-> the integer], or ok FALSE for a ValueError
ParseInt(s) ==
  IF \E n \in IntRange : s \in IntLiterals(n)
  THEN [ok |-> TRUE, v |-> CHOOSE n \in IntRange : s \in IntLiterals(n)]
  ELSE [ok |-> FALSE, v |-> 0]

\* A float is [k |-> "num", v |-> hundredths], [k |-> "inf", v |-> 1 or -1] or
\* [k |-> "nan", v |-> 0]; FloatError stands for float() raising ValueError.
Num(v) == [k |-> "num", v |-> v]
NaN == [k |-> "nan", v |-> 0]
Inf == [k |-> "inf", v |-> 1]
FloatError == [k |-> "ValueError", v |-> 0]

\* float(s): the float, or FloatError
ParseFloat(s) ==
  CASE s = "32.5" -> Num(3250)
    [] s = "100" -> Num(10000)
    [] s = "0" -> Num(0)
    [] s = "-5" -> Num(0 - 500)
    [] s = "nan" -> NaN
    [] s = "inf" -> Inf
    [] s = "-inf" -> [k |-> "inf", v |-> 0 - 1]
    [] OTHER -> FloatError

\* amount < 0 on floats: every comparison with nan is False
FloatNegative(f) == (f.k = "num" /\ f.v < 0) \/ (f.k = "inf" /\ f.v < 0)

\* str.strip()
Strip(s) ==
  CASE s = " 1 " -> "1"
    [] s = " tok " -> "tok"
    [] s = "  " -> ""
    [] OTHER -> s

\* str.lower()
Lower(s) ==
  CASE s = "MyId" -> "myid"
    [] s = "MYID" -> "myid"
    [] s = "Expense" -> "expense"
    [] s = "EXPENSE" -> "expense"
    [] s = "Income" -> "income"
    [] s = "ADD" -> "add"
    [] s = "Help" -> "help"
    [] s = "START" -> "start"
    [] s = "Add_Income" -> "add_income"
    [] OTHER -> s

\* ---------------------------------------------------- message text
\* A message text, stripped, is what precedes its first token (lead: nothing, one
\* "/" attached to the token, a "/" followed by blanks, or "//") and its
\* blank-separated tokens.
Text(lead, toks) == [lead |-> lead, toks |-> toks]
EmptyText == Text("", <<>>)

\* line = (text or "").strip(); not line
LineEmpty(text) == text.lead = "" /\ text.toks = <<>>

\* normalized = line[1:] if line.startswith("/"); parts = normalized.split()
SplitParts(text) ==
  IF text.lead = "//"
  THEN IF text.toks = <<>> THEN <<"/">> ELSE <<"/" \o Head(text.toks)>> \o Tail(text.toks)
  ELSE text.toks

IsMyIdCaseSensitive(text) ==
  /\ text.lead \in {"", "/"}
  /\ Len(text.toks) = 1
  /\ text.toks[1] = "myid"

\* text.strip().lower() in {"/myid", "myid"}
IsMyId(text) ==
  /\ text.lead \in {"", "/"}
  /\ Len(text.toks) = 1
  /\ Lower(text.toks[1]) = "myid"

\* " ".join(parts[3:]).strip()
RECURSIVE JoinSpace(_)
JoinSpace(ws) ==
  IF ws = <<>> THEN ""
  ELSE IF Len(ws) = 1 THEN ws[1]
  ELSE ws[1] \o " " \o JoinSpace(Tail(ws))

ERR_EMPTY == "empty message, send a command"
ERR_FORMAT == "bad format. example: /expense 32.5 canyin wufan"
ERR_FORMAT_ADD == "bad format. example: /add zhichu 32.5 canyin wufan"
ERR_UNSUPPORTED == "unsupported command. use /expense or /income"
ERR_NOT_NUMBER == "amount must be a number"
ERR_NEGATIVE == "amount must not be below 0"
ERR_CATEGORY == "invalid category. available: canyin, jiaotong, ..."

type_map(cmd) ==
  CASE cmd = "expense" -> "expense"
    [] cmd = "income" -> "income"
    [] cmd = "add_expense" -> "expense"
    [] cmd = "add_income" -> "income"
    [] cmd = "zhichu" -> "expense"
    [] cmd = "shouru" -> "income"
    [] OTHER -> None

\* The (parsed, err) pair the parser returns: parsed is None, "help" or "dict", and
\* tx is the dict when there is one.
NoTx == [type |-> None, amount |-> Num(0), category |-> None, note |-> "", happened_on |-> None]
Result(parsed, err) == [parsed |-> parsed, tx |-> NoTx, err |-> err]
Success(tx) == [parsed |-> "dict", tx |-> tx, err |-> ""]

ParseTypedNoteFromCategory(cmd, parts) ==
  LET tx_type == type_map(cmd)
      amount == ParseFloat(parts[2])
      category == parts[3]
      note == IF Len(parts) > 3 THEN JoinSpace(SubSeq(parts, 3, Len(parts))) ELSE ""
  IN  IF tx_type = None THEN Result(None, ERR_UNSUPPORTED)
      ELSE IF amount = FloatError THEN Result(None, ERR_NOT_NUMBER)
      ELSE IF FloatNegative(amount) THEN Result(None, ERR_NEGATIVE)
      ELSE IF category \notin ALLOWED_CATEGORIES THEN Result(None, ERR_CATEGORY)
      ELSE Success([type |-> tx_type, amount |-> amount, category |-> category,
                    note |-> note, happened_on |-> Today])

\* The part of parse_telegram_transaction after the add rewrite (app.py:472-494)
ParseTyped(cmd, parts) ==
  LET tx_type == type_map(cmd)
      amount == ParseFloat(parts[2])
      category == parts[3]
      note == IF Len(parts) > 3 THEN JoinSpace(SubSeq(parts, 4, Len(parts))) ELSE ""
  IN  IF tx_type = None THEN Result(None, ERR_UNSUPPORTED)
      ELSE IF amount = FloatError THEN Result(None, ERR_NOT_NUMBER)
      ELSE IF FloatNegative(amount) THEN Result(None, ERR_NEGATIVE)
      ELSE IF category \notin ALLOWED_CATEGORIES THEN Result(None, ERR_CATEGORY)
      ELSE Success([type |-> tx_type, amount |-> amount, category |-> category,
                    note |-> note, happened_on |-> Today])

parse_add_unshifted(text) ==
  LET parts == SplitParts(text)
      cmd == Lower(parts[1])
  IN  IF LineEmpty(text) THEN Result(None, ERR_EMPTY)
      ELSE IF parts = <<>> THEN Result(None, ERR_EMPTY)
      ELSE IF cmd \in {"help", "start"} THEN Result("help", "")
      ELSE IF Len(parts) < 3 THEN Result(None, ERR_FORMAT)
      ELSE IF cmd = "add"
           THEN IF Len(parts) < 4 THEN Result(None, ERR_FORMAT_ADD)
                ELSE ParseTyped(Lower(parts[2]), parts)
           ELSE ParseTyped(cmd, parts)

parse_telegram_transaction(text) ==
  LET parts == SplitParts(text)
      cmd == Lower(parts[1])
  IN  IF LineEmpty(text) THEN Result(None, ERR_EMPTY)
      ELSE IF parts = <<>> THEN Result(None, ERR_EMPTY)
      ELSE IF cmd \in {"help", "start"} THEN Result("help", "")
      ELSE IF Len(parts) < 3 THEN Result(None, ERR_FORMAT)
      ELSE IF cmd = "add"
           THEN IF Len(parts) < 4 THEN Result(None, ERR_FORMAT_ADD)
                ELSE ParseTyped(Lower(parts[2]), Tail(parts))
           ELSE ParseTyped(cmd, parts)

\* No call of the parser has returned yet.
NotCalled == [parsed |-> "<not called>", tx |-> NoTx, err |-> ""]

\* The texts given to the parser: a lead, a first token, and up to MaxRest tokens.
Leads == {"", "/", "/ ", "//"}
FirstTokens ==
  {"expense", "Expense", "EXPENSE", "income", "add_expense", "Add_Income", "zhichu",
   "shouru", "add", "ADD", "help", "START", "foo", "32.5", "canyin"}
RestTokens == {"zhichu", "Expense", "32.5", "-5", "foo", "canyin", "wu"}
SeqsUpTo(S, n) == UNION {[1 .. k -> S] : k \in 0 .. n}
ParserTexts ==
  {Text(lead, <<>>) : lead \in Leads}
    \cup {Text(lead, <<first>> \o rest) :
            lead \in Leads, first \in FirstTokens, rest \in SeqsUpTo(RestTokens, MaxRest)}

\* ------------------------------------------------------ reply texts
\* f"{amount:.2f}"
Format2f(f) ==
  IF f.k = "nan" THEN "nan"
  ELSE IF f.k = "inf" THEN (IF f.v < 0 THEN "-inf" ELSE "inf")
  ELSE Str(f.v \div 100) \o "." \o DigitStr[((f.v % 100) \div 10) + 1] \o DigitStr[(f.v % 10) + 1]

ReplyMyId(chat_id) == "current chat id: " \o Str(chat_id)
ReplyUnauthorized(chat_id) ==
  "unauthorized chat. current chat id: " \o Str(chat_id) \o ", bind it in the settings first"
HELP_TEXT == "commands: /expense amount category note, /income amount category note"
ReplyRecorded(tx) ==
  "recorded: " \o (IF tx.type = "income" THEN "shouru" ELSE "zhichu")
     \o " Y" \o Format2f(tx.amount) \o " / " \o tx.category

\* ----------------------------------------------------------- state
VARIABLES
  config,           \* table app_config: key -> value, None where there is no row
  transactions,     \* table transactions: its rows, in insertion order
  nextTxId,         \* the AUTOINCREMENT counter of transactions.id
  telegram_thread,  \* the module global: NoThread (None) or a thread
  telegram_lock,    \* NoCaller when free, else the caller holding it
  nthreads,         \* Thread objects created so far
  cpc,              \* per caller of start_telegram_poller: where it is
  pc,               \* per poller thread: where telegram_poll_loop is
  loc,              \* per poller thread: the locals of telegram_poll_loop
  remote,           \* the Telegram server: every update it created, in id order
  confirmed,        \* the Telegram server: the highest update id an offset confirmed
  sent,             \* the sendMessage calls made, in order
  web,              \* the settings POST in flight, if any
  session,          \* per browser: whether its session cookie has "authenticated"
  redirected,       \* the last request login_required redirected to the login page
  parser_text,      \* the argument of a call of parse_telegram_transaction
  parser_result     \* what that call returned, NotCalled before it returns

vars == <<config, transactions, nextTxId, telegram_thread, telegram_lock, nthreads,
          cpc, pc, loc, remote, confirmed, sent, web, session, redirected,
          parser_text, parser_result>>

Keys == {"telegram_enabled", "telegram_bot_token", "telegram_allowed_chat_id",
         "telegram_poll_interval", "telegram_last_update_id"}

ThreadIds == 1 .. MaxThreads
Callers == 1 .. NumCallers
NoThread == 0
NoCaller == 0
MainCaller == 1      \* the module-level call at app.py:623
NoChatId == 0        \* chat.get("id") is None
Clients == 1 .. NumClients
NoClient == 0

\* No request has been redirected to the login page.
NoRedirect == [client |-> NoClient, view |-> "none"]

\* get_config(key, default)
get_config(key, default) == IF config[key] = None THEN default ELSE config[key]

\* set_config(key, value): the table after the upsert and its commit
set_config(cfg, key, value) == [cfg EXCEPT ![key] = value]

NoLocals ==
  [enabled |-> FALSE, token |-> "", poll_interval |-> 0, last_update_id |-> 0,
   data |-> None, batch |-> <<>>, i |-> 0, result |-> Result(None, ""), slept |-> 0]

\* threading.Thread.is_alive()
is_alive(t) == pc[t] \notin {"unstarted", "dead", "killed"}

\* ----------------------------------------------- what the users send
Message(chat_id, text) == [present |-> TRUE, chat_id |-> chat_id, text |-> text]
NoMessage == [present |-> FALSE, chat_id |-> NoChatId, text |-> EmptyText]

Messages ==
  { Message(2, Text("/", <<"MyId">>)),
    Message(1, Text("/", <<"expense", "32.5", "canyin", "wu", "fan">>)),
    Message(1, Text("/", <<"expense", "-5", "canyin">>)),
    Message(2, Text("", <<"Help">>)),
    Message(1, Text("/", <<"income", "nan", "gongzi">>)),
    Message(NoChatId, Text("/", <<"expense", "0", "qita">>)),
    NoMessage }

\* Messages of one chat for every way the parser answers: no text, too few tokens,
\* an unknown command, an amount that is no number, a negative amount, a category
\* that is no option, help, start, and commands it accepts.
CommandMessages ==
  { Message(1, EmptyText),
    Message(1, Text("/", <<"expense", "32.5">>)),
    Message(1, Text("/", <<"add", "zhichu", "32.5">>)),
    Message(1, Text("/", <<"foo", "32.5", "canyin">>)),
    Message(1, Text("/", <<"expense", "abc", "canyin">>)),
    Message(1, Text("/", <<"expense", "-5", "canyin">>)),
    Message(1, Text("/", <<"expense", "32.5", "zawu">>)),
    Message(1, Text("", <<"Help">>)),
    Message(1, Text("/", <<"START">>)),
    Message(1, Text("/", <<"income", "100", "gongzi">>)),
    Message(2, Text("/", <<"expense", "abc", "canyin">>)) }

\* The settings forms posted: telegram_enabled, telegram_bot_token,
\* telegram_allowed_chat_id.
Form(enabled, bot_token, allowed) ==
  [telegram_enabled |-> enabled, telegram_bot_token |-> bot_token,
   telegram_allowed_chat_id |-> allowed]
Forms == { Form("on", " tok ", " 1 "), Form("", "tok", ""), Form("on", "tok", "01") }
NoForm == Form("", "", "")

\* An app_config table
Config(enabled, bot_token, allowed, interval, cursor) ==
  [k \in Keys |->
     CASE k = "telegram_enabled" -> enabled
       [] k = "telegram_bot_token" -> bot_token
       [] k = "telegram_allowed_chat_id" -> allowed
       [] k = "telegram_poll_interval" -> interval
       [] k = "telegram_last_update_id" -> cursor]

\* No settings POST is in flight. before is not program state: it keeps the table
\* as the POST in flight found it.
NoRequest == [at |-> "idle", form |-> NoForm, before |-> Config(None, None, None, None, None)]

\* The app_config tables a process can find at start, after app.py:619-622: a fresh
\* database, one the settings page has filled, one the operator has edited by hand.
InitConfigs ==
  { Config(None, None, None, "5", None),
    Config("1", "tok", "1", "1", None),
    Config("1", "tok", "", "fast", "last") }

\* ---------------------------------------------- start_telegram_poller
AcquireNoLock(c) == TRUE

\* app.py:612, with telegram_lock: the caller blocks until the lock is free
AcquireLock(c) == telegram_lock = NoCaller

StartAcquire(c) ==
  /\ cpc[c] = "call"
  /\ AcquireLock(c)
  /\ telegram_lock' = c
  /\ cpc' = [cpc EXCEPT ![c] = "locked"]
  /\ UNCHANGED <<parser_text, parser_result, session, redirected,
                 config, transactions, nextTxId, telegram_thread, nthreads, pc, loc,
                 remote, confirmed, sent, web>>

\* app.py:613, the condition of the early return
AlreadyRunning == telegram_thread # NoThread /\ is_alive(telegram_thread)

\* app.py:613-614
StartCheck(c) ==
  /\ cpc[c] = "locked"
  /\ IF AlreadyRunning
     THEN /\ cpc' = [cpc EXCEPT ![c] = "done"]
          /\ telegram_lock' = NoCaller
     ELSE /\ cpc' = [cpc EXCEPT ![c] = "create"]
          /\ UNCHANGED telegram_lock
  /\ UNCHANGED <<parser_text, parser_result, session, redirected,
                 config, transactions, nextTxId, telegram_thread, nthreads, pc, loc,
                 remote, confirmed, sent, web>>

\* app.py:615-616: the new thread is alive when start() returns
StartCreate(c) ==
  /\ cpc[c] = "create"
  /\ nthreads < MaxThreads
  /\ nthreads' = nthreads + 1
  /\ telegram_thread' = nthreads + 1
  /\ pc' = [pc EXCEPT ![nthreads + 1] = "loop"]
  /\ loc' = [loc EXCEPT ![nthreads + 1] = NoLocals]
  /\ telegram_lock' = NoCaller
  /\ cpc' = [cpc EXCEPT ![c] = "done"]
  /\ UNCHANGED <<parser_text, parser_result, session, redirected,
                 config, transactions, nextTxId, remote, confirmed, sent, web>>

\* A caller calls start_telegram_poller once more.
StartAgain(c) ==
  /\ cpc[c] = "done"
  /\ cpc' = [cpc EXCEPT ![c] = "call"]
  /\ UNCHANGED <<parser_text, parser_result, session, redirected,
                 config, transactions, nextTxId, telegram_thread, telegram_lock, nthreads,
                 pc, loc, remote, confirmed, sent, web>>

\* ------------------------------------------------- telegram_poll_loop
Goto(t, label) == pc' = [pc EXCEPT ![t] = label]

\* time.sleep(seconds), then continue
SleepThenContinue(t, l, seconds) ==
  /\ loc' = [loc EXCEPT ![t] = [l EXCEPT !.slept = seconds]]
  /\ Goto(t, "sleep")

\* app.py:565
ReadEnabled(t) ==
  /\ pc[t] = "loop"
  /\ loc' = [loc EXCEPT ![t] =
               [NoLocals EXCEPT !.enabled = (get_config("telegram_enabled", "0") = "1")]]
  /\ Goto(t, "token")
  /\ UNCHANGED <<parser_text, parser_result, session, redirected,
                 config, transactions, nextTxId, telegram_thread, telegram_lock, nthreads,
                 cpc, remote, confirmed, sent, web>>

IdleOnlyDisabled(enabled, token) == ~enabled

\* app.py:567
Idle(enabled, token) == ~enabled \/ token = ""

\* app.py:566-569
ReadToken(t) ==
  /\ pc[t] = "token"
  /\ LET token == Strip(get_config("telegram_bot_token", ""))
         l == [loc[t] EXCEPT !.token = token]
     IN  IF Idle(l.enabled, token)
         THEN SleepThenContinue(t, l, IdleBackoff)
         ELSE loc' = [loc EXCEPT ![t] = l] /\ Goto(t, "interval")
  /\ UNCHANGED <<parser_text, parser_result, session, redirected,
                 config, transactions, nextTxId, telegram_thread, telegram_lock, nthreads,
                 cpc, remote, confirmed, sent, web>>

\* int(get_config(key, default)) with the except ValueError fallback
IntOrDefault(key, default) ==
  LET r == ParseInt(get_config(key, Str(default)))
  IN  IF r.ok THEN r.v ELSE default

Max(a, b) == IF a >= b THEN a ELSE b

\* app.py:571-575
PollInterval ==
  Max(MinPollInterval, IntOrDefault("telegram_poll_interval", DEFAULT_TELEGRAM_POLL_INTERVAL))

\* app.py:577-580
LastUpdateId == IntOrDefault("telegram_last_update_id", 0)

ReadPollStateStale(t) ==
  /\ pc[t] = "interval"
  /\ loc' = [loc EXCEPT ![t] = [@ EXCEPT !.poll_interval = PollInterval]]
  /\ Goto(t, "fetch")
  /\ UNCHANGED <<parser_text, parser_result, session, redirected,
                 config, transactions, nextTxId, telegram_thread, telegram_lock, nthreads,
                 cpc, remote, confirmed, sent, web>>

\* app.py:571-580
ReadPollState(t) ==
  /\ pc[t] = "interval"
  /\ loc' = [loc EXCEPT ![t] =
               [@ EXCEPT !.poll_interval = PollInterval, !.last_update_id = LastUpdateId]]
  /\ Goto(t, "fetch")
  /\ UNCHANGED <<parser_text, parser_result, session, redirected,
                 config, transactions, nextTxId, telegram_thread, telegram_lock, nthreads,
                 cpc, remote, confirmed, sent, web>>

OffsetFromStart(last_update_id) == 0
OffsetSame(last_update_id) == last_update_id

\* app.py:588, the offset of the getUpdates request
Offset(last_update_id) == last_update_id + 1

\* The Telegram server's getUpdates: an offset confirms the updates below it, which
\* are never returned again; the answer is the unconfirmed updates from offset on.
Confirm(offset) == Max(confirmed, offset - 1)
GetUpdates(offset) == SelectSeq(remote, LAMBDA u : u.update_id > Confirm(offset))

\* What a fetch can end in: requests.RequestException, a body that is no JSON
\* (ValueError), a JSON object without a true "ok", a JSON body that is no object.
FetchFailures == {"RequestException", "ValueError", "not_ok"}

FetchFailsShortSleep(t) ==
  /\ pc[t] = "fetch"
  /\ \E outcome \in FetchFailures :
       SleepThenContinue(t, [loc[t] EXCEPT !.data = outcome], MinPollInterval)
  /\ UNCHANGED <<parser_text, parser_result, session, redirected,
                 config, transactions, nextTxId, telegram_thread, telegram_lock, nthreads,
                 cpc, remote, confirmed, sent, web>>

\* app.py:582-599, the fetch failing or answering ok false
FetchFails(t) ==
  /\ pc[t] = "fetch"
  /\ \E outcome \in FetchFailures :
       SleepThenContinue(t, [loc[t] EXCEPT !.data = outcome], loc[t].poll_interval)
  /\ UNCHANGED <<parser_text, parser_result, session, redirected,
                 config, transactions, nextTxId, telegram_thread, telegram_lock, nthreads,
                 cpc, remote, confirmed, sent, web>>

\* app.py:592-597, resp.json() is a list, a string or a number: data.get raises
\* AttributeError, which nothing catches, and the thread ends
FetchNotDict(t) ==
  /\ pc[t] = "fetch"
  /\ loc' = [loc EXCEPT ![t] = [@ EXCEPT !.data = "not_dict"]]
  /\ Goto(t, "dead")
  /\ UNCHANGED <<parser_text, parser_result, session, redirected,
                 config, transactions, nextTxId, telegram_thread, telegram_lock, nthreads,
                 cpc, remote, confirmed, sent, web>>

\* app.py:582-601, {"ok": true, "result": [...]}
FetchOk(t) ==
  /\ pc[t] = "fetch"
  /\ LET result == GetUpdates(Offset(loc[t].last_update_id))
     IN  /\ confirmed' = Confirm(Offset(loc[t].last_update_id))
         /\ loc' = [loc EXCEPT ![t] = [@ EXCEPT !.data = "ok", !.batch = result, !.i = 1]]
  /\ Goto(t, "for")
  /\ UNCHANGED <<parser_text, parser_result, session, redirected,
                 config, transactions, nextTxId, telegram_thread, telegram_lock, nthreads,
                 cpc, remote, sent, web>>

\* return from handle_telegram_message, or an update without message: next update
NextUpdate(t, l) ==
  /\ loc' = [loc EXCEPT ![t] = [l EXCEPT !.i = l.i + 1]]
  /\ Goto(t, "for")

\* app.py:601, the for loop is exhausted: back to while True, without sleeping
BatchDone(t) ==
  /\ pc[t] = "for"
  /\ loc[t].i > Len(loc[t].batch)
  /\ Goto(t, "loop")
  /\ UNCHANGED <<parser_text, parser_result, session, redirected,
                 config, transactions, nextTxId, telegram_thread, telegram_lock, nthreads,
                 cpc, loc, remote, confirmed, sent, web>>

PersistCursorNextOffset(cfg, update_id) ==
  IF update_id \in Int
  THEN set_config(cfg, "telegram_last_update_id", Str(update_id + 1))
  ELSE cfg

\* app.py:604-605
PersistCursor(cfg, update_id) ==
  IF update_id \in Int THEN set_config(cfg, "telegram_last_update_id", Str(update_id)) ELSE cfg

TakeUpdateHandleFirst(t) ==
  /\ pc[t] = "for"
  /\ loc[t].i <= Len(loc[t].batch)
  /\ LET update == loc[t].batch[loc[t].i]
     IN  IF update.message.present
         THEN Goto(t, "handle") /\ UNCHANGED <<loc, config>>
         ELSE config' = PersistCursor(config, update.update_id) /\ NextUpdate(t, loc[t])
  /\ UNCHANGED <<parser_text, parser_result, session, redirected,
                 transactions, nextTxId, telegram_thread, telegram_lock, nthreads,
                 cpc, remote, confirmed, sent, web>>

\* app.py:601-606
TakeUpdate(t) ==
  /\ pc[t] = "for"
  /\ loc[t].i <= Len(loc[t].batch)
  /\ LET update == loc[t].batch[loc[t].i]
     IN  /\ config' = PersistCursor(config, update.update_id)
         /\ IF update.message.present
            THEN Goto(t, "handle") /\ UNCHANGED loc
            ELSE NextUpdate(t, loc[t])
  /\ UNCHANGED <<parser_text, parser_result, session, redirected,
                 transactions, nextTxId, telegram_thread, telegram_lock, nthreads,
                 cpc, remote, confirmed, sent, web>>

\* app.py:507-511: one sendMessage call; delivered is FALSE when the request raised
\* requests.RequestException, which is swallowed
send_telegram_message(update_id, chat_id, text, delivered) ==
  sent' = Append(sent, [update_id |-> update_id, chat_id |-> chat_id, text |-> text,
                        delivered |-> delivered])

DeniedNumeric(allowed_chat_id, chat_id) ==
  /\ allowed_chat_id # ""
  /\ ~(ParseInt(allowed_chat_id).ok /\ ParseInt(allowed_chat_id).v = chat_id)

\* app.py:527
Denied(allowed_chat_id, chat_id) == allowed_chat_id # "" /\ Str(chat_id) # allowed_chat_id

\* app.py:514-533
HandleMessage(t) ==
  /\ pc[t] = "handle"
  /\ LET update == loc[t].batch[loc[t].i]
         text == update.message.text
         chat_id == update.message.chat_id
         allowed_chat_id == Strip(get_config("telegram_allowed_chat_id", ""))
     IN  IF chat_id = NoChatId
         THEN NextUpdate(t, loc[t]) /\ UNCHANGED sent
         ELSE IF IsMyId(text)
         THEN /\ \E d \in BOOLEAN :
                   send_telegram_message(update.update_id, chat_id, ReplyMyId(chat_id), d)
              /\ NextUpdate(t, loc[t])
         ELSE IF Denied(allowed_chat_id, chat_id)
         THEN /\ \E d \in BOOLEAN :
                   send_telegram_message(update.update_id, chat_id,
                                         ReplyUnauthorized(chat_id), d)
              /\ NextUpdate(t, loc[t])
         ELSE Goto(t, "parse") /\ UNCHANGED <<loc, sent>>
  /\ UNCHANGED <<parser_text, parser_result, session, redirected,
                 config, transactions, nextTxId, telegram_thread, telegram_lock, nthreads,
                 cpc, remote, confirmed, web>>

ParseMessageErrorDropped(t) ==
  /\ pc[t] = "parse"
  /\ LET update == loc[t].batch[loc[t].i]
         chat_id == update.message.chat_id
         r == parse_telegram_transaction(update.message.text)
     IN  IF r.parsed = "help"
         THEN /\ \E d \in BOOLEAN :
                   send_telegram_message(update.update_id, chat_id, HELP_TEXT, d)
              /\ NextUpdate(t, loc[t])
         ELSE IF r.err # ""
         THEN NextUpdate(t, loc[t]) /\ UNCHANGED sent
         ELSE /\ loc' = [loc EXCEPT ![t] = [@ EXCEPT !.result = r]]
              /\ Goto(t, "add")
              /\ UNCHANGED sent
  /\ UNCHANGED <<parser_text, parser_result, session, redirected,
                 config, transactions, nextTxId, telegram_thread, telegram_lock, nthreads,
                 cpc, remote, confirmed, web>>

\* app.py:535-545
ParseMessage(t) ==
  /\ pc[t] = "parse"
  /\ LET update == loc[t].batch[loc[t].i]
         chat_id == update.message.chat_id
         r == parse_telegram_transaction(update.message.text)
     IN  IF r.parsed = "help"
         THEN /\ \E d \in BOOLEAN :
                   send_telegram_message(update.update_id, chat_id, HELP_TEXT, d)
              /\ NextUpdate(t, loc[t])
         ELSE IF r.err # ""
         THEN /\ \E d \in BOOLEAN :
                   send_telegram_message(update.update_id, chat_id, r.err, d)
              /\ NextUpdate(t, loc[t])
         ELSE /\ loc' = [loc EXCEPT ![t] = [@ EXCEPT !.result = r]]
              /\ Goto(t, "add")
              /\ UNCHANGED sent
  /\ UNCHANGED <<parser_text, parser_result, session, redirected,
                 config, transactions, nextTxId, telegram_thread, telegram_lock, nthreads,
                 cpc, remote, confirmed, web>>

\* The constraints of table transactions (app.py:59-67): type IN ('income',
\* 'expense'), amount NOT NULL (sqlite3 binds a nan as NULL) and amount >= 0.
IntegrityError(tx_type, amount) ==
  \/ tx_type \notin {"income", "expense"}
  \/ amount.k = "nan"
  \/ FloatNegative(amount)

\* The row add_transaction_record inserts (app.py:100-111); update_id is not a column:
\* it records which update the row came from, 0 for the web form.
Row(id, tx_type, amount, category, note, happened_on, update_id) ==
  [id |-> id, type |-> tx_type, amount |-> amount, category |-> category, note |-> note,
   happened_on |-> happened_on, update_id |-> update_id]

\* app.py:547-553; an IntegrityError is caught nowhere and ends the thread
AddRecord(t) ==
  /\ pc[t] = "add"
  /\ LET update == loc[t].batch[loc[t].i]
         parsed == loc[t].result.tx
     IN  IF IntegrityError(parsed.type, parsed.amount)
         THEN Goto(t, "dead") /\ UNCHANGED <<transactions, nextTxId>>
         ELSE /\ transactions' = Append(transactions,
                   Row(nextTxId, parsed.type, parsed.amount, parsed.category, parsed.note,
                       parsed.happened_on, update.update_id))
              /\ nextTxId' = nextTxId + 1
              /\ Goto(t, "confirm")
  /\ UNCHANGED <<parser_text, parser_result, session, redirected,
                 config, telegram_thread, telegram_lock, nthreads, cpc, loc, remote,
                 confirmed, sent, web>>

SendRecordedRaises(t) ==
  /\ pc[t] = "confirm"
  /\ LET update == loc[t].batch[loc[t].i]
     IN  \E d \in BOOLEAN :
           /\ send_telegram_message(update.update_id, update.message.chat_id,
                                    ReplyRecorded(loc[t].result.tx), d)
           /\ IF d THEN NextUpdate(t, loc[t]) ELSE Goto(t, "dead") /\ UNCHANGED loc
  /\ UNCHANGED <<parser_text, parser_result, session, redirected,
                 config, transactions, nextTxId, telegram_thread, telegram_lock, nthreads,
                 cpc, remote, confirmed, web>>

\* app.py:554-559
SendRecorded(t) ==
  /\ pc[t] = "confirm"
  /\ LET update == loc[t].batch[loc[t].i]
     IN  \E d \in BOOLEAN :
           send_telegram_message(update.update_id, update.message.chat_id,
                                 ReplyRecorded(loc[t].result.tx), d)
  /\ NextUpdate(t, loc[t])
  /\ UNCHANGED <<parser_text, parser_result, session, redirected,
                 config, transactions, nextTxId, telegram_thread, telegram_lock, nthreads,
                 cpc, remote, confirmed, web>>

\* time.sleep returns (app.py:568-569, 594-595, 598-599): continue
Wake(t) ==
  /\ pc[t] = "sleep"
  /\ Goto(t, "loop")
  /\ UNCHANGED <<parser_text, parser_result, session, redirected,
                 config, transactions, nextTxId, telegram_thread, telegram_lock, nthreads,
                 cpc, loc, remote, confirmed, sent, web>>

\* ------------------------------------------------------ environment
\* A user sends the bot a message: the server creates an update with the next id.
UserSendsFrom(messages) ==
  /\ Len(remote) < MaxUpdates
  /\ \E m \in messages :
       remote' = Append(remote, [update_id |-> Len(remote) + 1, message |-> m])
  /\ UNCHANGED <<parser_text, parser_result, session, redirected,
                 config, transactions, nextTxId, telegram_thread, telegram_lock, nthreads,
                 cpc, pc, loc, confirmed, sent, web>>

UserSends == UserSendsFrom(Messages)

UserSendsCommand == UserSendsFrom(CommandMessages)

\* app.py:619-622 on the table cfg
ModuleInit(cfg) ==
  IF (IF cfg["telegram_poll_interval"] = None THEN "" ELSE cfg["telegram_poll_interval"]) = ""
  THEN set_config(cfg, "telegram_poll_interval", Str(DEFAULT_TELEGRAM_POLL_INTERVAL))
  ELSE cfg

\* The host process stops, wherever its threads are, and is started again: the
\* module is imported anew (app.py:37-38, 619-622) and is about to call
\* start_telegram_poller (app.py:623).
ProcessRestart ==
  /\ nthreads < MaxThreads
  /\ pc' = [t \in ThreadIds |-> IF is_alive(t) THEN "killed" ELSE pc[t]]
  /\ loc' = [t \in ThreadIds |-> NoLocals]
  /\ telegram_thread' = NoThread
  /\ telegram_lock' = NoCaller
  /\ cpc' = [c \in Callers |-> IF c = MainCaller THEN "call" ELSE "done"]
  /\ web' = NoRequest
  /\ config' = ModuleInit(config)
  /\ UNCHANGED <<parser_text, parser_result, session, redirected,
                 transactions, nextTxId, nthreads, remote, confirmed, sent>>

\* ------------------------------------------------- login and session
DEFAULT_PASSWORD == "P@ssw0rd"

\* app.py:114-119, with neither APP_PASSWORD nor APP_PASSWORD_HASH set
is_password_valid(raw_password) == raw_password = DEFAULT_PASSWORD

\* What a login form carries
Passwords == {DEFAULT_PASSWORD, "p@ssw0rd", ""}

LoginNotRequired(c) == TRUE

\* app.py:125, the condition under which wrapped_view calls the view
login_required(c) == session[c]

\* The views behind login_required that write the store
Views == {"settings", "add_transaction", "delete_transaction", "edit_transaction"}

\* app.py:125-126: a request of browser c to a view, without authenticated session
RedirectToLogin(c) ==
  /\ ~session[c]
  /\ \E view \in Views : redirected' = [client |-> c, view |-> view]
  /\ UNCHANGED <<config, transactions, nextTxId, telegram_thread, telegram_lock, nthreads,
                 cpc, pc, loc, remote, confirmed, sent, web, session,
                 parser_text, parser_result>>

\* app.py:132-140, the POST
login(c) ==
  /\ \E password \in Passwords :
       session' = IF is_password_valid(password) THEN [session EXCEPT ![c] = TRUE]
                  ELSE session
  /\ UNCHANGED <<config, transactions, nextTxId, telegram_thread, telegram_lock, nthreads,
                 cpc, pc, loc, remote, confirmed, sent, web, redirected,
                 parser_text, parser_result>>

\* app.py:143-146
logout(c) ==
  /\ session' = [session EXCEPT ![c] = FALSE]
  /\ UNCHANGED <<config, transactions, nextTxId, telegram_thread, telegram_lock, nthreads,
                 cpc, pc, loc, remote, confirmed, sent, web, redirected,
                 parser_text, parser_result>>

\* ------------------------------------------------- the settings POST
\* app.py:190
EnabledValue(form) == IF form.telegram_enabled = "on" THEN "1" ELSE "0"

\* app.py:186-194
SettingsSetEnabled(c) ==
  /\ login_required(c)
  /\ web.at = "idle"
  /\ \E form \in Forms :
       /\ config' = set_config(config, "telegram_enabled", EnabledValue(form))
       /\ web' = [at |-> "enabled_saved", form |-> form, before |-> config]
  /\ UNCHANGED <<parser_text, parser_result, session, redirected,
                 transactions, nextTxId, telegram_thread, telegram_lock, nthreads, cpc, pc,
                 loc, remote, confirmed, sent>>

\* app.py:191, 195
SettingsSetToken ==
  /\ web.at = "enabled_saved"
  /\ config' = set_config(config, "telegram_bot_token", Strip(web.form.telegram_bot_token))
  /\ web' = [web EXCEPT !.at = "token_saved"]
  /\ UNCHANGED <<parser_text, parser_result, session, redirected,
                 transactions, nextTxId, telegram_thread, telegram_lock, nthreads, cpc, pc,
                 loc, remote, confirmed, sent>>

\* app.py:192, 196-198
SettingsSetAllowed ==
  /\ web.at = "token_saved"
  /\ config' = set_config(config, "telegram_allowed_chat_id",
                          Strip(web.form.telegram_allowed_chat_id))
  /\ web' = NoRequest
  /\ UNCHANGED <<parser_text, parser_result, session, redirected,
                 transactions, nextTxId, telegram_thread, telegram_lock, nthreads, cpc, pc,
                 loc, remote, confirmed, sent>>

\* ------------------------------------------- the transaction forms
TxForm(tx_type, amount, category, happened_on) ==
  [type |-> tx_type, amount |-> amount, category |-> category, note |-> "",
   happened_on |-> happened_on]
TxForms ==
  { TxForm("income", "100", "gongzi", Today),
    TxForm("expense", "32.5", "canyin", "2024-04-30"),
    TxForm("expense", "inf", "qita", Today),
    TxForm("transfer", "100", "gongzi", Today),
    TxForm("income", "-5", "gongzi", Today),
    TxForm("income", "abc", "gongzi", Today),
    TxForm("income", "nan", "gongzi", Today),
    TxForm("expense", "100", "", Today),
    TxForm("expense", "100", "zawu", Today),
    TxForm("expense", "100", "canyin", "05/01") }

\* datetime.strptime(s, "%Y-%m-%d") succeeds
IsDate(s) == s \in {Today, "2024-04-30"}

FormErrorEditUnchecked(form, check_empty) ==
  LET amount == ParseFloat(form.amount)
  IN  IF amount = FloatError THEN "amount must be a number"
      ELSE IF form.type \notin {"income", "expense"} THEN "type is not valid"
      ELSE IF FloatNegative(amount) THEN "amount must not be below 0"
      ELSE IF check_empty /\ form.category = "" THEN "category must not be empty"
      ELSE IF check_empty /\ form.category \notin ALLOWED_CATEGORIES
           THEN "category is not an option"
      ELSE IF ~IsDate(form.happened_on) THEN "date format is wrong"
      ELSE ""

\* The checks of add_transaction (app.py:334-356) and of edit_transaction
\* (app.py:394-413), in their order: the flash message, "" when the form passes.
\* Only add_transaction has the separate check of an empty category.
FormError(form, check_empty) ==
  LET amount == ParseFloat(form.amount)
  IN  IF amount = FloatError THEN "amount must be a number"
      ELSE IF form.type \notin {"income", "expense"} THEN "type is not valid"
      ELSE IF FloatNegative(amount) THEN "amount must not be below 0"
      ELSE IF check_empty /\ form.category = "" THEN "category must not be empty"
      ELSE IF form.category \notin ALLOWED_CATEGORIES THEN "category is not an option"
      ELSE IF ~IsDate(form.happened_on) THEN "date format is wrong"
      ELSE ""

\* app.py:325-359; a form that fails a check, or a row the table refuses, writes nothing
add_transaction(c) ==
  /\ login_required(c)
  /\ nextTxId <= MaxRows
  /\ \E form \in TxForms :
       /\ FormError(form, TRUE) = ""
       /\ ~IntegrityError(form.type, ParseFloat(form.amount))
       /\ transactions' = Append(transactions,
            Row(nextTxId, form.type, ParseFloat(form.amount), form.category, form.note,
                form.happened_on, 0))
  /\ nextTxId' = nextTxId + 1
  /\ UNCHANGED <<parser_text, parser_result, session, redirected,
                 config, telegram_thread, telegram_lock, nthreads, cpc, pc, loc, remote,
                 confirmed, sent, web>>

\* app.py:362-368
delete_transaction(c) ==
  /\ login_required(c)
  /\ \E tx_id \in 1 .. nextTxId :
       /\ \E k \in DOMAIN transactions : transactions[k].id = tx_id
       /\ transactions' = SelectSeq(transactions, LAMBDA r : r.id # tx_id)
  /\ UNCHANGED <<parser_text, parser_result, session, redirected,
                 config, nextTxId, telegram_thread, telegram_lock, nthreads, cpc, pc, loc,
                 remote, confirmed, sent, web>>

\* app.py:415-423, the UPDATE of the row tx_id
UpdateRow(rows, tx_id, form) ==
  [k \in DOMAIN rows |->
     IF rows[k].id = tx_id
     THEN [rows[k] EXCEPT !.type = form.type, !.amount = ParseFloat(form.amount),
                          !.category = form.category, !.note = form.note,
                          !.happened_on = form.happened_on]
     ELSE rows[k]]

\* app.py:371-424, the POST
edit_transaction(c) ==
  /\ login_required(c)
  /\ \E tx_id \in 1 .. nextTxId, form \in TxForms :
       /\ \E k \in DOMAIN transactions : transactions[k].id = tx_id
       /\ FormError(form, FALSE) = ""
       /\ ~IntegrityError(form.type, ParseFloat(form.amount))
       /\ transactions' = UpdateRow(transactions, tx_id, form)
       /\ transactions' # transactions
  /\ UNCHANGED <<parser_text, parser_result, session, redirected,
                 config, nextTxId, telegram_thread, telegram_lock, nthreads, cpc, pc, loc,
                 remote, confirmed, sent, web>>

\* ---------------------------------------------------- specifications
InitProcess ==
  /\ transactions = <<>>
  /\ nextTxId = 1
  /\ telegram_thread = NoThread
  /\ telegram_lock = NoCaller
  /\ nthreads = 0
  /\ pc = [t \in ThreadIds |-> "unstarted"]
  /\ loc = [t \in ThreadIds |-> NoLocals]
  /\ remote = <<>>
  /\ confirmed = 0
  /\ sent = <<>>
  /\ web = NoRequest
  /\ redirected = NoRedirect

InitStore ==
  /\ config \in InitConfigs
  /\ InitProcess
  /\ parser_text = EmptyText
  /\ parser_result = NotCalled

\* The process has imported the module and is about to run app.py:623; the browsers
\* hold the session cookie of an earlier login.
Init ==
  /\ InitStore
  /\ cpc = [c \in Callers |-> IF c = MainCaller THEN "call" ELSE "done"]
  /\ session = [c \in Clients |-> TRUE]

Engine(t) ==
  \/ ReadEnabled(t) \/ ReadToken(t) \/ ReadPollState(t)
  \/ FetchFails(t) \/ FetchNotDict(t) \/ FetchOk(t)
  \/ BatchDone(t) \/ TakeUpdate(t)
  \/ HandleMessage(t) \/ ParseMessage(t) \/ AddRecord(t) \/ SendRecorded(t)
  \/ Wake(t)

Start(c) == StartAcquire(c) \/ StartCheck(c) \/ StartCreate(c)

Next ==
  \/ Start(MainCaller)
  \/ \E t \in ThreadIds : Engine(t)
  \/ UserSends
  \/ ProcessRestart

Spec == Init /\ [][Next]_vars

\* The settings page saves while the engine runs.
NextSettings ==
  \/ Start(MainCaller)
  \/ \E t \in ThreadIds : Engine(t)
  \/ UserSends
  \/ \E c \in Clients : SettingsSetEnabled(c)
  \/ SettingsSetToken \/ SettingsSetAllowed

SpecSettings == Init /\ [][NextSettings]_vars

\* The ledger: the web form and the bot both write the transactions table.
NextLedger ==
  \/ Start(MainCaller)
  \/ \E t \in ThreadIds : Engine(t)
  \/ UserSends
  \/ \E c \in Clients : add_transaction(c) \/ delete_transaction(c) \/ edit_transaction(c)

SpecLedger == Init /\ [][NextLedger]_vars

\* Several threads call start_telegram_poller, any number of times, while the engine
\* runs.
InitStart ==
  /\ InitStore
  /\ cpc = [c \in Callers |-> "call"]
  /\ session = [c \in Clients |-> TRUE]

NextStart ==
  \/ \E c \in Callers : Start(c) \/ StartAgain(c)
  \/ \E t \in ThreadIds : Engine(t)
  \/ UserSends

SpecStart == InitStart /\ [][NextStart]_vars

\* The bot's replies: a chat sends commands of every kind.
NextReplies ==
  \/ Start(MainCaller)
  \/ \E t \in ThreadIds : Engine(t)
  \/ UserSendsCommand

SpecReplies == Init /\ [][NextReplies]_vars

\* The web handlers alone, of browsers that start without a session.
InitWeb ==
  /\ InitStore
  /\ cpc = [c \in Callers |-> IF c = MainCaller THEN "call" ELSE "done"]
  /\ session = [c \in Clients |-> FALSE]

NextWeb ==
  \/ \E c \in Clients :
       \/ login(c) \/ logout(c) \/ RedirectToLogin(c)
       \/ SettingsSetEnabled(c)
       \/ add_transaction(c) \/ delete_transaction(c) \/ edit_transaction(c)
  \/ SettingsSetToken \/ SettingsSetAllowed

SpecWeb == InitWeb /\ [][NextWeb]_vars

\* The parser alone: a text is given to parse_telegram_transaction, which returns.
InitParser ==
  /\ config = Config(None, None, None, Str(DEFAULT_TELEGRAM_POLL_INTERVAL), None)
  /\ InitProcess
  /\ cpc = [c \in Callers |-> IF c = MainCaller THEN "call" ELSE "done"]
  /\ session = [c \in Clients |-> FALSE]
  /\ parser_text \in ParserTexts
  /\ parser_result = NotCalled

CallParser ==
  /\ parser_result = NotCalled
  /\ parser_result' = parse_telegram_transaction(parser_text)
  /\ UNCHANGED <<config, transactions, nextTxId, telegram_thread, telegram_lock, nthreads,
                 cpc, pc, loc, remote, confirmed, sent, web, session, redirected,
                 parser_text>>

NextParser == CallParser

SpecParser == InitParser /\ [][NextParser]_vars

\* ------------------------------------------------------------ claims
InBatch == {"handle", "parse", "add", "confirm"}

\* How many updates of its batch thread t has taken, the cursor write included
Taken(t) ==
  IF pc[t] = "for" THEN loc[t].i - 1 ELSE IF pc[t] \in InBatch THEN loc[t].i ELSE 0

MaxOf(S) == CHOOSE m \in S : \A x \in S : x <= m

TakenIds(t) == {loc[t].batch[k].update_id : k \in 1 .. Taken(t)}

Cursor == config["telegram_last_update_id"]

\* C1: once the loop has taken updates of a fetched batch (all of them, when the for
\* loop is exhausted), the persisted telegram_last_update_id is the string of the
\* largest update id it has seen, in this batch and in the ones confirmed before,
\* whatever the messages of those updates parsed to.
C1_CursorIsMaxObserved ==
  \A t \in ThreadIds :
    Taken(t) > 0 =>
      /\ Cursor = Str(MaxOf(TakenIds(t)))
      /\ MaxOf(TakenIds(t)) > confirmed

C1_Witness ==
  \E t \in ThreadIds :
    /\ pc[t] = "for"
    /\ Len(loc[t].batch) >= 2
    /\ loc[t].i > Len(loc[t].batch)
    /\ \E k \in DOMAIN sent : sent[k].text = ERR_NEGATIVE
    /\ transactions = <<>>

\* C2: the step of a fetch that fails (RequestException, a body that is no JSON) or
\* answers ok false changes neither app_config nor the transactions nor the messages
\* sent, and puts the thread to sleep for the poll interval, the stored
\* telegram_poll_interval clamped to at least 2 and 5 when it is no integer; the step
\* that ends a sleep leads to the start of the loop.
C2_FailedFetchCommitsNothing ==
  [][\A t \in ThreadIds :
       /\ (pc[t] = "fetch" /\ pc'[t] \notin {"fetch", "killed"}
             /\ loc'[t].data \in FetchFailures) =>
            /\ config' = config
            /\ transactions' = transactions
            /\ sent' = sent
            /\ pc'[t] = "sleep"
            /\ loc'[t].slept = PollInterval'
       /\ (pc[t] = "sleep" /\ pc'[t] \notin {"sleep", "killed"}) => pc'[t] = "loop"]_vars

C2_Witness ==
  \E t \in ThreadIds :
    /\ pc[t] = "sleep"
    /\ loc[t].data = "not_ok"
    /\ loc[t].slept = MinPollInterval
    /\ Cursor = "1"

\* C3: at most one poller thread is alive, however many threads call
\* start_telegram_poller and however often.
C3_AtMostOnePoller == Cardinality({t \in ThreadIds : is_alive(t)}) <= 1

C3_Witness ==
  /\ \A c \in Callers : cpc[c] = "done"
  /\ Cardinality({t \in ThreadIds : is_alive(t)}) = 1
  /\ nthreads = 1

\* The message thread t is handling
CurUpdate(t) == loc[t].batch[loc[t].i]
CurChat(t) == CurUpdate(t).message.chat_id

\* The text is /myid or myid, in any case of its letters
SaysMyId(text) ==
  /\ text.lead \in {"", "/"}
  /\ text.toks \in {<<"myid">>, <<"MyId">>, <<"MYID">>}

\* The stored telegram_allowed_chat_id, "" when unset
ConfiguredAllowed ==
  IF config["telegram_allowed_chat_id"] = None THEN "" ELSE config["telegram_allowed_chat_id"]

OneSend(update_id, chat_id, text) ==
  {Append(sent, [update_id |-> update_id, chat_id |-> chat_id, text |-> text,
                 delivered |-> d]) : d \in BOOLEAN}

\* C4: the step that handles a message which has a chat id and is no /myid request
\* passes it to the parser exactly when the stored telegram_allowed_chat_id is empty
\* or unset or is the decimal string of the chat id; otherwise it sends that chat the
\* unauthorized reply with its chat id and goes on to the next update. The parser is
\* reached only through that step, and a transaction is written only after the parser.
C4_ParserIffAllowed ==
  [][/\ \A t \in ThreadIds :
          /\ (pc[t] = "handle" /\ pc'[t] # "handle"
                /\ CurChat(t) # NoChatId /\ ~SaysMyId(CurUpdate(t).message.text)) =>
               IF ConfiguredAllowed = "" \/ ConfiguredAllowed = Str(CurChat(t))
               THEN pc'[t] = "parse" /\ sent' = sent /\ transactions' = transactions
               ELSE /\ pc'[t] = "for"
                    /\ loc'[t].i = loc[t].i + 1
                    /\ transactions' = transactions
                    /\ sent' \in OneSend(CurUpdate(t).update_id, CurChat(t),
                                         ReplyUnauthorized(CurChat(t)))
          /\ (pc'[t] = "parse" /\ pc[t] # "parse") => pc[t] = "handle"
          /\ (pc'[t] = "add" /\ pc[t] # "add") => pc[t] = "parse"
     /\ transactions' # transactions => \E t \in ThreadIds : pc[t] = "add"]_vars

C4_Witness ==
  /\ ConfiguredAllowed = "01"
  /\ web.at = "idle"
  /\ transactions = <<>>
  /\ Len(sent) = 2
  /\ \A k \in DOMAIN sent : sent[k].text = ReplyUnauthorized(sent[k].chat_id)

\* C5: the step that handles a /myid or myid message of a chat sends that chat the
\* reply with its chat id and nothing else, writes no transaction and goes on to the
\* next update, whatever telegram_allowed_chat_id is; no row of the transactions
\* table comes from such a message.
C5_MyIdBypassesAllowList ==
  /\ [](\A k \in DOMAIN transactions :
          transactions[k].update_id > 0 =>
            ~SaysMyId(remote[transactions[k].update_id].message.text))
  /\ [][\A t \in ThreadIds :
          (pc[t] = "handle" /\ pc'[t] # "handle"
             /\ CurChat(t) # NoChatId /\ SaysMyId(CurUpdate(t).message.text)) =>
            /\ sent' \in OneSend(CurUpdate(t).update_id, CurChat(t), ReplyMyId(CurChat(t)))
            /\ transactions' = transactions
            /\ pc'[t] = "for"
            /\ loc'[t].i = loc[t].i + 1]_vars

C5_Witness ==
  /\ ConfiguredAllowed = "1"
  /\ web.at = "idle"
  /\ \E k \in DOMAIN sent : sent[k].chat_id = 2 /\ sent[k].text = "current chat id: 2"
  /\ \A k \in DOMAIN sent : sent[k].text # ReplyUnauthorized(2)

\* C6: no step lowers the persisted cursor, read as the engine reads it (0 when the
\* stored value is no integer).
C6_CursorMonotone == [][LastUpdateId' >= LastUpdateId]_vars

C6_Witness ==
  /\ Cursor = "2"
  /\ confirmed = 1

\* Updates whose cursor write happened and whose message got no reply, and which no
\* live thread is handling: their messages are lost, since no later fetch returns them.
Dropped ==
  {u \in 1 .. Len(remote) :
     /\ u <= LastUpdateId
     /\ remote[u].message.present
     /\ remote[u].message.chat_id # NoChatId
     /\ ~\E k \in DOMAIN sent : sent[k].update_id = u
     /\ ~\E t \in ThreadIds : is_alive(t) /\ pc[t] \in InBatch /\ CurUpdate(t).update_id = u}

\* Poller threads that ended: by an uncaught exception, or with the process
Ended == {t \in ThreadIds : pc[t] \in {"dead", "killed"}}

\* C7: whenever the engine stops and is restarted from the persisted cursor, no two
\* rows of the transactions table come from the same update, and the updates whose
\* message was dropped are at most as many as the times the engine stopped.
C7_NoDuplicateAtMostOneDrop ==
  /\ \A j, k \in DOMAIN transactions :
       (j # k /\ transactions[j].update_id > 0) =>
         transactions[j].update_id # transactions[k].update_id
  /\ Cardinality(Dropped) <= Cardinality(Ended)

C7_Witness ==
  /\ pc[1] = "killed"
  /\ Dropped = {1}
  /\ \E k \in DOMAIN transactions : transactions[k].update_id = 2
  /\ \E k \in DOMAIN sent : sent[k].update_id = 2

\* C8: a poller thread never ends by itself: whatever an iteration meets, the loop
\* goes on.
C8_LoopNeverEnds == \A t \in ThreadIds : pc[t] # "dead"

\* What the engine reads of a table at app.py:565-566
EngineView(cfg) ==
  << (IF cfg["telegram_enabled"] = None THEN "0" ELSE cfg["telegram_enabled"]) = "1",
     Strip(IF cfg["telegram_bot_token"] = None THEN "" ELSE cfg["telegram_bot_token"]) >>

\* The table once the settings POST in flight has saved its three keys
AfterSave ==
  [web.before EXCEPT !["telegram_enabled"] = EnabledValue(web.form),
                     !["telegram_bot_token"] = Strip(web.form.telegram_bot_token),
                     !["telegram_allowed_chat_id"] = Strip(web.form.telegram_allowed_chat_id)]

\* C9: when the engine completes its read of telegram_enabled and
\* telegram_bot_token while a settings POST is saving, the pair it has read is the
\* pair of the table before that POST or the pair of the table after it, never one
\* value of each.
C9_NoMixedRead ==
  [][\A t \in ThreadIds :
       (pc[t] = "token" /\ pc'[t] # "token" /\ web.at # "idle") =>
         <<loc'[t].enabled, loc'[t].token>> \in {EngineView(web.before), EngineView(AfterSave)}]_vars

AmountNonNegative(a) == (a.k = "num" /\ a.v >= 0) \/ (a.k = "inf" /\ a.v > 0)

\* C10: every row of the transactions table has type income or expense, an amount
\* >= 0 and a category of ALLOWED_CATEGORIES, after any web adds, edits, deletes and
\* bot commands.
C10_RowsValid ==
  \A k \in DOMAIN transactions :
    /\ transactions[k].type \in {"income", "expense"}
    /\ AmountNonNegative(transactions[k].amount)
    /\ transactions[k].category \in ALLOWED_CATEGORIES
    /\ Cardinality(ALLOWED_CATEGORIES) = 14

C10_Witness ==
  \E j, k \in DOMAIN transactions :
    /\ transactions[j].update_id = 0
    /\ transactions[j].amount = Inf
    /\ transactions[k].update_id > 0
    /\ transactions[k].category = "gongzi"
\* ---------------------------------------------------- the parser's claims
\* parts[0].lower() of a text that has a token
FirstToken(text) == Lower(SplitParts(text)[1])

TypeKeys == {"expense", "income", "add_expense", "add_income", "zhichu", "shouru"}

\* C11: for every text with at least one token whose first token, after the leading
\* "/" is dropped and in lower case, is none of help, start, add and the keys of the
\* type table, the parser returns the unsupported-command error, however many tokens
\* follow.
C11_UnknownIsUnsupported ==
  (/\ parser_result # NotCalled
   /\ SplitParts(parser_text) # <<>>
   /\ FirstToken(parser_text) \notin ({"help", "start", "add"} \cup TypeKeys)) =>
     parser_result = Result(None, ERR_UNSUPPORTED)

\* The type a direct command stands for
TypeOfCommand(cmd) == IF cmd \in {"expense", "add_expense", "zhichu"} THEN "expense" ELSE "income"

\* The text starts with its first token or with one "/"
PlainLead(text) == text.lead \in {"", "/", "/ "}

\* C12: for a text whose first token is a direct command (a key of the type table in
\* any case of its letters, with or without the leading "/"), when an amount token
\* that is a number >= 0 and a category token of ALLOWED_CATEGORIES follow, the parser
\* returns the dict with the type of that command, that amount, that category, the
\* other tokens joined by single spaces as note ("" when there are none) and today as
\* happened_on; when fewer than two tokens follow the command it returns the error
\* with the usage example.
C12_DirectCommand ==
  (/\ parser_result # NotCalled
   /\ PlainLead(parser_text)
   /\ parser_text.toks # <<>>
   /\ Lower(parser_text.toks[1]) \in TypeKeys) =>
     LET toks == parser_text.toks
     IN  /\ Len(toks) < 3 => parser_result = Result(None, ERR_FORMAT)
         /\ (/\ Len(toks) >= 3
             /\ ParseFloat(toks[2]) # FloatError
             /\ AmountNonNegative(ParseFloat(toks[2]))
             /\ toks[3] \in ALLOWED_CATEGORIES) =>
               /\ parser_result.parsed = "dict"
               /\ parser_result.err = ""
               /\ parser_result.tx =
                    [type |-> TypeOfCommand(Lower(toks[1])),
                     amount |-> ParseFloat(toks[2]),
                     category |-> toks[3],
                     note |-> JoinSpace(SubSeq(toks, 4, Len(toks))),
                     happened_on |-> Today]

C12_Witness ==
  /\ parser_text = Text("/", <<"Add_Income", "32.5", "canyin", "wu", "foo">>)
  /\ parser_result.parsed = "dict"
  /\ parser_result.tx.type = "income"
  /\ parser_result.tx.amount = Num(3250)
  /\ parser_result.tx.note = "wu foo"

\* C13: for a text add T amount category note..., T a key of the type table in any
\* case, the parser returns what it returns for the text T amount category note...
\* with the same lead: the same dict or the same error.
C13_AddIsDirect ==
  (/\ parser_result # NotCalled
   /\ Len(parser_text.toks) >= 4
   /\ Lower(parser_text.toks[1]) = "add"
   /\ PlainLead(parser_text)
   /\ Lower(parser_text.toks[2]) \in TypeKeys) =>
     parser_result = parse_telegram_transaction(Text(parser_text.lead, Tail(parser_text.toks)))

C13_Witness ==
  /\ parser_text = Text("", <<"ADD", "zhichu", "32.5", "canyin", "wu">>)
  /\ parser_result.parsed = "dict"
  /\ parser_result.tx.type = "expense"
  /\ parser_result.tx.category = "canyin"
  /\ parser_result.tx.note = "wu"

\* ---------------------------------------------------- the engine's claims
\* The sendMessage call e is the confirmation of the transaction its update asked for
IsConfirmation(e) ==
  LET r == parse_telegram_transaction(remote[e.update_id].message.text)
  IN  r.parsed = "dict" /\ e.text = ReplyRecorded(r.tx)

\* C14: every confirmation the engine has tried to send, delivered or not, is of a
\* row that is in the transactions table; the engine comes to the confirmation only
\* by the step that commits the row; and the step that sends the confirmation,
\* whether the send fails or not, leaves the table as it is and goes on to the next
\* update of the same batch.
C14_CommitBeforeConfirm ==
  /\ [](\A k \in DOMAIN sent :
          IsConfirmation(sent[k]) =>
            \E j \in DOMAIN transactions :
              /\ transactions[j].update_id = sent[k].update_id
              /\ sent[k].text = ReplyRecorded(transactions[j]))
  /\ [][\A t \in ThreadIds :
          /\ (pc'[t] = "confirm" /\ pc[t] # "confirm") =>
               /\ pc[t] = "add"
               /\ sent' = sent
               /\ Len(transactions') = Len(transactions) + 1
               /\ transactions'[Len(transactions')].update_id = CurUpdate(t).update_id
          /\ (pc[t] = "confirm" /\ pc'[t] \notin {"confirm", "killed"}) =>
               /\ sent' \in OneSend(CurUpdate(t).update_id, CurChat(t),
                                    ReplyRecorded(loc[t].result.tx))
               /\ transactions' = transactions
               /\ pc'[t] = "for"
               /\ loc'[t].batch = loc[t].batch
               /\ loc'[t].i = loc[t].i + 1]_vars

C14_Witness ==
  \E t \in ThreadIds :
    /\ pc[t] = "for"
    /\ Len(loc[t].batch) = 2
    /\ loc[t].i = 3
    /\ Len(sent) = 2
    /\ sent[1].update_id = 1 /\ IsConfirmation(sent[1]) /\ ~sent[1].delivered
    /\ sent[2].update_id = 2
    /\ \E j \in DOMAIN transactions : transactions[j].update_id = 1

\* Thread t is inside the for loop over its batch
InFor(t) == pc[t] = "for" \/ pc[t] \in InBatch

\* C15: a thread goes through its batch in the order the remote API returned it, one
\* update after the other. While it handles an update (parser, transaction, sends)
\* the persisted cursor is that update's id: the cursor write of an update comes
\* before every side effect of that update, every send and every new row is of the
\* update the cursor names, and the step that writes the cursor sends nothing, adds
\* no row, and finds the id of the preceding update of the batch as the cursor.
C15_CursorBeforeSideEffects ==
  /\ [](\A t \in ThreadIds :
          /\ InFor(t) =>
               \A j, k \in DOMAIN loc[t].batch :
                 j < k => loc[t].batch[j].update_id < loc[t].batch[k].update_id
          /\ pc[t] \in InBatch => Cursor = Str(CurUpdate(t).update_id))
  /\ [][/\ \A t \in ThreadIds :
             (InFor(t) /\ pc'[t] \in {"for"} \cup InBatch) =>
               /\ loc'[t].batch = loc[t].batch
               /\ loc'[t].i = (IF pc'[t] = "for" /\ pc[t] \in InBatch THEN loc[t].i + 1
                               ELSE IF pc'[t] = "for" /\ Cursor' # Cursor THEN loc[t].i + 1
                               ELSE loc[t].i)
        /\ (sent' # sent \/ transactions' # transactions) =>
             \E t \in ThreadIds :
               /\ pc[t] \in InBatch
               /\ Cursor' = Cursor
               /\ sent' # sent =>
                    /\ Len(sent') = Len(sent) + 1
                    /\ sent'[Len(sent')].update_id = CurUpdate(t).update_id
               /\ transactions' # transactions =>
                    /\ Len(transactions') = Len(transactions) + 1
                    /\ transactions'[Len(transactions')].update_id = CurUpdate(t).update_id
        /\ Cursor' # Cursor =>
             \E t \in ThreadIds :
               /\ pc[t] = "for"
               /\ Cursor' = Str(CurUpdate(t).update_id)
               /\ loc[t].i > 1 => Cursor = Str(loc[t].batch[loc[t].i - 1].update_id)
               /\ sent' = sent
               /\ transactions' = transactions]_vars

C15_Witness ==
  \E t \in ThreadIds :
    /\ pc[t] = "confirm"
    /\ Len(loc[t].batch) = 2
    /\ loc[t].i = 2
    /\ Cursor = "2"
    /\ \E k \in DOMAIN sent : sent[k].update_id = 1
    /\ \A k \in DOMAIN sent : sent[k].update_id # 2

\* The updates of the remote API with id >= offset
FromOffset(offset) == SelectSeq(remote, LAMBDA u : u.update_id >= offset)

\* C16: an iteration reads the persisted cursor and fetches with that cursor + 1 as
\* offset, the cursor being still what it read; the fetch returns the updates with id
\* >= offset and no other; every update the loop takes has an id above the persisted
\* cursor; and so no update is handled twice: no two sendMessage calls and no two
\* rows are of the same update.
C16_NeverHandledAgain ==
  /\ [](/\ \A j, k \in DOMAIN sent : j # k => sent[j].update_id # sent[k].update_id
        /\ \A j, k \in DOMAIN transactions :
             j # k => transactions[j].update_id # transactions[k].update_id
        /\ \A t \in ThreadIds : pc[t] = "fetch" => loc[t].last_update_id = LastUpdateId)
  /\ [][\A t \in ThreadIds :
          /\ (pc[t] = "interval" /\ pc'[t] = "fetch") =>
               loc'[t].last_update_id = LastUpdateId
          /\ (pc[t] = "fetch" /\ pc'[t] = "for") =>
               /\ loc'[t].batch = FromOffset(LastUpdateId + 1)
               /\ loc'[t].i = 1
          /\ (pc[t] = "for" /\ (pc'[t] = "handle" \/ Cursor' # Cursor)) =>
               CurUpdate(t).update_id > LastUpdateId]_vars

C16_Witness ==
  \E t \in ThreadIds :
    /\ pc[t] = "handle"
    /\ loc[t].last_update_id = 1
    /\ Len(loc[t].batch) = 1
    /\ CurUpdate(t).update_id = 2
    /\ \E k \in DOMAIN sent : sent[k].update_id = 1

\* C17: an iteration reads telegram_enabled, then telegram_bot_token; when what it
\* read of telegram_enabled was not "1", or the stored token is empty once stripped,
\* the step that reads the token changes neither app_config nor the transactions
\* nor the messages sent, asks the remote API nothing, and puts the thread to sleep
\* for 3, from which it returns to the start of the loop; otherwise the iteration
\* goes on to read the poll interval.
C17_IdleDoesNothing ==
  [][\A t \in ThreadIds :
       /\ (pc[t] = "loop" /\ pc'[t] = "token") =>
            /\ loc'[t].enabled = EngineView(config)[1]
            /\ config' = config /\ transactions' = transactions
            /\ sent' = sent /\ confirmed' = confirmed
       /\ (pc[t] = "token" /\ pc'[t] \notin {"token", "killed"}) =>
            IF ~loc[t].enabled \/ EngineView(config)[2] = ""
            THEN /\ pc'[t] = "sleep"
                 /\ loc'[t].slept = 3
                 /\ config' = config /\ transactions' = transactions
                 /\ sent' = sent /\ confirmed' = confirmed
            ELSE pc'[t] = "interval"
       /\ (pc[t] = "sleep" /\ pc'[t] \notin {"sleep", "killed"}) =>
            /\ pc'[t] = "loop"
            /\ config' = config /\ transactions' = transactions
            /\ sent' = sent /\ confirmed' = confirmed]_vars

C17_Witness ==
  \E t \in ThreadIds :
    /\ pc[t] = "sleep"
    /\ loc[t].slept = IdleBackoff
    /\ loc[t].enabled
    /\ loc[t].token = ""
    /\ remote # <<>>
    /\ confirmed = 0
    /\ sent = <<>>

\* C18: a thread comes back to the start of the loop only out of a sleep: of 3 when
\* the iteration found the bot disabled or without token, of the poll interval when
\* its fetch failed, and of the poll interval when its fetch answered ok and the
\* batch has been gone through.
C18_SleepsBetweenIterations ==
  [][\A t \in ThreadIds :
       (pc'[t] = "loop" /\ pc[t] \notin {"loop", "unstarted"}) =>
         /\ pc[t] = "sleep"
         /\ loc[t].slept = (IF loc[t].data = None THEN 3 ELSE loc[t].poll_interval)]_vars

\* What the bot is to answer to a text the parser does not accept: the error of its
\* kind, or the help text; "" for a text the parser accepts.
ExpectedReply(text) ==
  CASE text = EmptyText -> ERR_EMPTY
    [] text = Text("/", <<"expense", "32.5">>) -> ERR_FORMAT
    [] text = Text("/", <<"add", "zhichu", "32.5">>) -> ERR_FORMAT_ADD
    [] text = Text("/", <<"foo", "32.5", "canyin">>) -> ERR_UNSUPPORTED
    [] text = Text("/", <<"expense", "abc", "canyin">>) -> ERR_NOT_NUMBER
    [] text = Text("/", <<"expense", "-5", "canyin">>) -> ERR_NEGATIVE
    [] text = Text("/", <<"expense", "32.5", "zawu">>) -> ERR_CATEGORY
    [] text = Text("", <<"Help">>) -> HELP_TEXT
    [] text = Text("/", <<"START">>) -> HELP_TEXT
    [] OTHER -> ""

\* C19: the parser is run on messages of an authorized chat only; when the text is
\* one it rejects (no text, too few tokens, unknown command, amount no number or
\* negative, category no option) the step sends the chat that error text and nothing
\* else, adds no row and goes on to the next update; for help and start it sends the
\* help text in the same way; no row ever comes from such a message.
C19_ErrorRepliedNothingRecorded ==
  /\ [](/\ \A j \in DOMAIN transactions :
             ExpectedReply(remote[transactions[j].update_id].message.text) = ""
        /\ \A t \in ThreadIds :
             pc[t] = "parse" => ConfiguredAllowed \in {"", Str(CurChat(t))})
  /\ [][\A t \in ThreadIds :
          (pc[t] = "parse" /\ pc'[t] \notin {"parse", "killed"}) =>
            LET e == ExpectedReply(CurUpdate(t).message.text)
            IN  IF e # ""
                THEN /\ sent' \in OneSend(CurUpdate(t).update_id, CurChat(t), e)
                     /\ transactions' = transactions
                     /\ pc'[t] = "for"
                     /\ loc'[t].i = loc[t].i + 1
                ELSE /\ pc'[t] = "add"
                     /\ sent' = sent
                     /\ transactions' = transactions]_vars

C19_Witness ==
  /\ Len(sent) = 2
  /\ sent[1].chat_id = 1 /\ sent[1].text = ERR_CATEGORY
  /\ sent[2].chat_id = 1 /\ sent[2].text = HELP_TEXT
  /\ transactions = <<>>
  /\ \E t \in ThreadIds : pc[t] = "for" /\ loc[t].i = 3

\* ---------------------------------------------------- the web handlers' claim
\* C20: while no browser has an authenticated session and no settings save is under
\* way, no step changes app_config or the transactions table; and the step that
\* answers a request to settings or to the add, edit or delete of a transaction with
\* the redirect to the login page is of a browser without authenticated session and
\* changes neither, nor the session.
C20_NoSessionNoWrite ==
  [][/\ ((\A c \in Clients : ~session[c]) /\ web.at = "idle") =>
          /\ config' = config
          /\ transactions' = transactions
          /\ nextTxId' = nextTxId
     /\ redirected' # redirected =>
          /\ ~session[redirected'.client]
          /\ session' = session
          /\ config' = config
          /\ transactions' = transactions
          /\ nextTxId' = nextTxId
          /\ web' = web]_vars

C20_Witness ==
  /\ \A c \in Clients : ~session[c]
  /\ redirected = [client |-> 1, view |-> "delete_transaction"]
  /\ Len(transactions) = 1
  /\ config["telegram_bot_token"] = "tok"
  /\ web.at = "idle"
====
